---------------------------- MODULE Spec2Model ----------------------------
(***************************************************************************)
(* A model of the secp256r1_ecdsa repository: ECDSA over a short           *)
(* Weierstrass curve (secp256r1_ecdsa.go), the twisted Edwards curve E222  *)
(* (E222.go) and the Schnorr scheme built on the sibling curve E521.       *)
(*                                                                         *)
(* The 222-, 256- and 521-bit fields are scaled down to small prime fields *)
(* that keep the structure the code relies on:                             *)
(*   - Weierstrass: a = -3, prime group order N < P, cofactor 1, P = 3     *)
(*     mod 4, and points whose x-coordinate lies in [N, P-1];              *)
(*   - Edwards: p = 3 mod 4, d a non-square mod p, group order n = 4 r     *)
(*     with r prime, generator of order r.                                 *)
(* Go's nil (big.Int.ModInverse without an inverse, sqrt without a root)   *)
(* is the value Nil; a nil dereference is a panic.                         *)
(***************************************************************************)
EXTENDS Integers, Sequences, FiniteSets, TLC

(***************************************************************************)
(* Bounds of the model.                                                    *)
(***************************************************************************)
\* messages are 0..MaxMsg
MaxMsg == 3
\* the random draw of the nonce bytes is 0..MaxRnd (wraps past the order)
MaxRnd == 18
\* the random private-key bytes are 0..MaxPriv (reaches the order)
MaxPriv == 17
\* signature components presented to verification are 0..MaxSig
MaxSig == 20
\* scalars handed to SecMul are 0..MaxScalar (passes the group order)
MaxScalar == 30
\* radicands handed to sqrt are 0..MaxRadicand (unreduced, passes p)
MaxRadicand == 40
\* passwords are 0..MaxPw
MaxPw == 3
\* x-coordinates handed to NewE222X are 0..MaxCoord (passes p)
MaxCoord == 20
\* invalid public keys are the off-curve pairs of 0..MaxBad
MaxBad == 1
\* scalars in a sequence of operations on a caller's points are 0..MaxMult
MaxMult == 3

(***************************************************************************)
(* math/big                                                                *)
(***************************************************************************)
\* the nil pointer returned by ModInverse and by sqrt
Nil == -1

\* big.Int.Abs
Abs(v) == IF v < 0 THEN 0 - v ELSE v

RECURSIVE BitLen(_)
\* big.Int.BitLen: the length of |v| in bits, 0 for 0
BitLen(v) == IF Abs(v) = 0 THEN 0 ELSE 1 + BitLen(Abs(v) \div 2)

RECURSIVE Pow2(_)
Pow2(i) == IF i = 0 THEN 1 ELSE 2 * Pow2(i - 1)

\* big.Int.Bit(i) of a non-negative value
Bit(v, i) == (v \div Pow2(i)) % 2

RECURSIVE Bytes(_)
\* big.Int.Bytes: the big-endian bytes of the absolute value
Bytes(v) == IF Abs(v) = 0 THEN << >>
            ELSE Append(Bytes(Abs(v) \div 256), Abs(v) % 256)

RECURSIVE SetBytes(_)
\* big.Int.SetBytes: the unsigned big-endian value of a byte slice
SetBytes(b) == IF Len(b) = 0 THEN 0
               ELSE 256 * SetBytes(SubSeq(b, 1, Len(b) - 1)) + b[Len(b)]

\* big.Int.ModInverse(g, n): Nil when g has no inverse modulo n
ModInverse(g, n) ==
    IF \E x \in 1..(n - 1) : (g * x) % n = 1
    THEN CHOOSE x \in 1..(n - 1) : (g * x) % n = 1
    ELSE Nil

RECURSIVE Exp(_, _, _)
\* big.Int.Exp(v, e, m) with a modulus
Exp(v, e, m) == IF e = 0 THEN 1 % m ELSE (Exp(v, e - 1, m) * (v % m)) % m

(***************************************************************************)
(* crypto/elliptic: the curve elliptic.P256(), y^2 = x^3 - 3 x + b, scaled *)
(* to the field of 23 elements, where it has the prime order 17.  The      *)
(* affine API writes the point at infinity as (0, 0).                      *)
(***************************************************************************)
\* secp256r1.Params().P
P256P == 23
\* secp256r1.Params().B
P256B == 15
\* secp256r1.Params().N, the curve order
P256N == 17
\* secp256r1.Params().Gx
P256Gx == 9
\* secp256r1.Params().Gy
P256Gy == 2

\* the generator g built from Params().Gx and Params().Gy
P256G == [x |-> P256Gx, y |-> P256Gy]

\* the point at infinity as ScalarBaseMult(n.Bytes()) returns it
Infinity == [x |-> 0, y |-> 0]

\* Curve.IsOnCurve: coordinates in range and on y^2 = x^3 - 3 x + b
IsOnCurve(Q) ==
    /\ Q.x \in 0..(P256P - 1)
    /\ Q.y \in 0..(P256P - 1)
    /\ (Q.y * Q.y) % P256P = (Q.x * Q.x * Q.x - 3 * Q.x + P256B) % P256P

\* Curve.Add: the group law on valid points
P256Add(A, B) ==
    IF A = Infinity THEN B
    ELSE IF B = Infinity THEN A
    ELSE IF A.x = B.x /\ (A.y + B.y) % P256P = 0 THEN Infinity
    ELSE LET lam == IF A = B
                    THEN ((3 * A.x * A.x - 3) * ModInverse((2 * A.y) % P256P, P256P)) % P256P
                    ELSE ((B.y - A.y) * ModInverse((B.x - A.x) % P256P, P256P)) % P256P
             x3 == (lam * lam - A.x - B.x) % P256P
         IN  [x |-> x3, y |-> (lam * (A.x - x3) - A.y) % P256P]

RECURSIVE P256Mult(_, _)
\* the k-fold sum of a valid point
P256Mult(A, k) == IF k = 0 THEN Infinity ELSE P256Add(P256Mult(A, k - 1), A)

\* Curve.ScalarMult(x, y, k): the scalar is a big-endian byte slice
ScalarMult(A, k_bytes) == P256Mult(A, SetBytes(k_bytes))

\* Curve.ScalarBaseMult(k)
ScalarBaseMult(k_bytes) == ScalarMult(P256G, k_bytes)

\* sha256.Sum256 of a message: a fixed digest per message, one byte wide here
Sha256(msg) == << (13 * msg + 7) % 32 >>

(***************************************************************************)
(* secp256r1_ecdsa.go: ECDSA                                               *)
(***************************************************************************)
VARIABLES pc, d_a, Q_a, msg, sig, ver

\* a signing result: status "ok" with the returned pair (r, s), or "panic";
\* k is the nonce the copy of the function drew
SigPanic(copy, k) == [status |-> "panic", r |-> 0, s |-> 0, k |-> k, copy |-> copy]

\* sign_message_ecdsa, the copy with k = ((rnd + 1) mod n) - 1
sign_message_ecdsa_first(m, d, rnd) ==
    LET z      == SetBytes(Sha256(m))
        k      == ((rnd + 1) % P256N) - 1
        x1     == ScalarBaseMult(Bytes(k)).x
        r      == x1 % P256N
        k_inv  == ModInverse(k, P256N)
    IN  IF k_inv = Nil THEN SigPanic("first", k)
        ELSE [status |-> "ok", r |-> r, s |-> (k_inv * (z + r * d)) % P256N,
              k |-> k, copy |-> "first"]

\* sign_message_ecdsa, the copy with k = (rnd + 1) mod n
sign_message_ecdsa(m, d, rnd) ==
    LET z      == SetBytes(Sha256(m))
        k      == (rnd + 1) % P256N
        x1     == ScalarBaseMult(Bytes(k)).x
        r      == x1 % P256N
        k_inv  == ModInverse(k, P256N)
    IN  IF k_inv = Nil THEN SigPanic("second", k)
        ELSE [status |-> "ok", r |-> r, s |-> (k_inv * (z + r * d)) % P256N,
              k |-> k, copy |-> "second"]

\* the range check without the upper bound on s
InRangeNoUpper(r, s) == r < P256N /\ r > 1 /\ s > 1

\* the range check of verify_ecdsa_sig on r and s
InRange(r, s) == r < P256N /\ r > 1 /\ s < P256N /\ s > 1

\* the x-coordinate of u1 G + u2 Q_a computed by verify_ecdsa_sig
res_x(Q, r, s, m) ==
    LET z     == SetBytes(Sha256(m))
        s_inv == ModInverse(s, P256N)
        u1    == (z * s_inv) % P256N
        u2    == (r * s_inv) % P256N
    IN  P256Add(ScalarBaseMult(Bytes(u1)), ScalarMult(Q, Bytes(u2))).x

\* the final comparison of verify_ecdsa_sig
Accepts(x1, r) == x1 = r

\* verify_ecdsa_sig on a key that ScalarMult is defined on
verify_ecdsa_sig(Q, r, s, m) ==
    LET n_pt        == ScalarBaseMult(Bytes(P256N))
        \* n_x != Q_a.X && n_y != Q_a.Y compares the pointers, and n_x, n_y
        \* are fresh allocations
        not_neutral == TRUE
        on_curve    == IsOnCurve(Q)
    IN  IF not_neutral /\ on_curve /\ ScalarMult(Q, Bytes(P256N)) = n_pt
        THEN IF InRange(r, s) THEN Accepts(res_x(Q, r, s, m), r) ELSE FALSE
        ELSE FALSE

\* g.ScalarMult(Q_a.X, Q_a.Y, n.Bytes()) runs before on_curve is consulted;
\* on a point that is not on the curve its behaviour is undefined: it
\* panics or returns some point
ScalarMultUndefined(Q) == ~IsOnCurve(Q) /\ Q # Infinity

\* what a call of verify_ecdsa_sig can do
verify_outcomes(Q, r, s, m) ==
    IF ScalarMultUndefined(Q) THEN {"panic", "false"}
    ELSE {IF verify_ecdsa_sig(Q, r, s, m) THEN "true" ELSE "false"}

(***************************************************************************)
(* E222.go: the Edwards curve x^2 + y^2 = 1 + d x^2 y^2, scaled to the     *)
(* field of 19 elements with d = 8, where it has 28 = 4 * 7 points.        *)
(***************************************************************************)
\* getP: the prime of the field
getP == 19
\* the coefficient d of every constructor
getD == 8
\* getR: the order of the generator
getR == 7
\* the field n of every point: 4 * r
getN == 4 * getR

\* a panic of the Go runtime in place of a point (a nil dereference)
Fault == [x |-> 0, y |-> 0, fault |-> TRUE]

\* a panic in place of a number
Panic == -2

\* NewE222XY: the point with the coordinates as given, not reduced
NewE222XY(x, y) == [x |-> x, y |-> y]

\* E222IdPoint
E222IdPoint == NewE222XY(0, 1)

\* E222GenPoint
E222GenPoint == NewE222XY(2, 9)

\* the curve equation
OnE222(A) ==
    (A.x * A.x + A.y * A.y) % getP = (1 + getD * A.x * A.x * A.y * A.y) % getP

\* the body of Add over the field p with coefficient d
EdAdd(A, B, p, d) ==
    IF A = Fault \/ B = Fault THEN Fault
    ELSE
    LET x1 == A.x
        y1 == A.y
        x2 == B.x
        y2 == B.y
        xNum   == (x1 * y2 + y1 * x2) % p
        mul    == d * x1 * x2 * y1 * y2
        xDenom == ModInverse((1 + mul) % p, p)
        yNum   == (y1 * y2 - x1 * x2) % p
        yDenom == ModInverse((1 - mul) % p, p)
    IN  IF xDenom = Nil \/ yDenom = Nil THEN Fault
        ELSE NewE222XY((xNum * xDenom) % p, (yNum * yDenom) % p)

\* E222.Add
Add(A, B) == EdAdd(A, B, getP, getD)

\* the ladder iteration with the two branches exchanged
LadderStepSwapped(r0, r1, b, p, d) ==
    IF b = 0
    THEN [r0 |-> EdAdd(r0, r1, p, d), r1 |-> EdAdd(r1, r1, p, d)]
    ELSE [r0 |-> EdAdd(r0, r0, p, d), r1 |-> EdAdd(r0, r1, p, d)]

\* one iteration of the ladder of SecMul: the pair (r0, r1) after bit b
LadderStep(r0, r1, b, p, d) ==
    IF b = 1
    THEN [r0 |-> EdAdd(r0, r1, p, d), r1 |-> EdAdd(r1, r1, p, d)]
    ELSE [r0 |-> EdAdd(r0, r0, p, d), r1 |-> EdAdd(r0, r1, p, d)]

RECURSIVE Ladder(_, _, _, _, _, _)
\* the loop of SecMul from bit index i down to 0
Ladder(r0, r1, S, i, p, d) ==
    IF i < 0 THEN r0
    ELSE LET st == LadderStep(r0, r1, Bit(S, i), p, d)
         IN  Ladder(st.r0, st.r1, S, i - 1, p, d)

\* E222.SecMul
SecMul(r1, S) == Ladder(NewE222XY(0, 1), r1, S, BitLen(S), getP, getD)

\* sqrt: a root of v with the requested least significant bit, or Nil
sqrt(v, lsb) ==
    IF v = 0 THEN 0
    ELSE LET r == Exp(v, (getP \div 4) + 1, getP)
         IN  IF r % 2 # lsb
             THEN LET r2 == getP - r
                      bi == (r2 * r2 - v) % getP
                  IN  IF bi = 0 THEN r2 ELSE Nil
             ELSE r

\* the radicand solveForY hands to sqrt, not reduced; Panic when the
\* denominator has no inverse
radicand(X, P) ==
    LET num   == (1 - X * X) % P
        denom == ModInverse((1 + getD * X * X) % P, P)
    IN  IF denom = Nil THEN Panic ELSE num * denom

\* solveForY
solveForY(X, P, msb) ==
    IF radicand(X, P) = Panic THEN Panic ELSE sqrt(radicand(X, P), msb)

\* NewE222X: *solveForY(...) dereferences the root
NewE222X(x, msb) ==
    LET Y == solveForY(x, getP, msb)
    IN  IF Y = Panic \/ Y = Nil THEN Fault ELSE NewE222XY(x, Y)

\* getOpposite: the point it returns, built from the value of e.x.Neg(&e.x)
getOpposite(e) == NewE222XY(0 - e.x, e.y)

\* getOpposite: the receiver after the call; Neg writes its result into e.x
getOppositeReceiver(e) == [e EXCEPT !.x = 0 - e.x]

\* E222.Equals: Cmp on the stored coordinates
Equals(A, B) == A.x = B.x /\ A.y = B.y

\* P.Add(Q.getOpposite()): the argument is evaluated first, and Add then
\* reads its receiver; shared is TRUE when P and Q are one object
AddOpposite(P, shared) ==
    IF shared THEN Add(getOppositeReceiver(P), getOpposite(P))
    ELSE Add(P, getOpposite(P))

\* the kind of a call dst = a.Add(b) of the ladder: a general addition of two
\* variables, or a doubling of one
OpKind(c) == IF c.a = c.b THEN "double" ELSE "add"

\* the calls of one iteration with no general addition on a zero bit
LadderCallsSkipping(b) ==
    IF b = 1
    THEN << [dst |-> "r0", a |-> "r0", b |-> "r1"],
            [dst |-> "r1", a |-> "r1", b |-> "r1"] >>
    ELSE << [dst |-> "r0", a |-> "r0", b |-> "r0"] >>

\* the calls of Add in one iteration of the ladder of SecMul, in order:
\* dst = a.Add(b) over the variables r0 and r1
LadderCalls(b) ==
    IF b = 1
    THEN << [dst |-> "r0", a |-> "r0", b |-> "r1"],
            [dst |-> "r1", a |-> "r1", b |-> "r1"] >>
    ELSE << [dst |-> "r1", a |-> "r0", b |-> "r1"],
            [dst |-> "r0", a |-> "r0", b |-> "r0"] >>

RECURSIVE RunCalls(_, _)
\* the variables r0 and r1 after the calls are executed in order
RunCalls(env, calls) ==
    IF Len(calls) = 0 THEN env
    ELSE LET c == Head(calls)
         IN  RunCalls([env EXCEPT ![c.dst] = Add(env[c.a], env[c.b])],
                      Tail(calls))

(***************************************************************************)
(* The Schnorr scheme of secp256r1_ecdsa.go on the curve E521, an Edwards  *)
(* curve with the arithmetic of E222 over its own field; scaled to the     *)
(* field of 23 elements with d = 5, where it has 20 = 4 * 5 points.        *)
(***************************************************************************)
\* the prime of the field of E521
E521P == 23
\* the coefficient d of E521
E521D == 5
\* E521IdPoint().r: the order of the generator
E521R == 5

\* E521GenPoint(0)
E521GenPoint == NewE222XY(4, 6)

\* E521.Add
E521Add(A, B) == EdAdd(A, B, E521P, E521D)

\* E521.SecMul
E521SecMul(r1, S) == Ladder(NewE222XY(0, 1), r1, S, BitLen(S), E521P, E521D)

\* the customization strings of the keyed hash
Tag(S) == CASE S = "K" -> 1 [] S = "N" -> 11 [] S = "T" -> 21

\* KMACXOF256(K, X, 512, S): a fixed digest per (key, message, tag), one
\* byte wide here and injective in the key
KMACXOF256(K, X, S) ==
    << (7 * (SetBytes(K) + Len(K)) + 3 * (SetBytes(X) + Len(X)) + Tag(S)) % 32 >>

\* the private scalar s of signWithKey
SchnorrS(pw) == SetBytes(KMACXOF256(pw, << >>, "K")) * 4

\* the nonce scalar k of signWithKey
SchnorrK(pw, message) ==
    SetBytes(KMACXOF256(Bytes(SchnorrS(pw)), message, "N")) * 4

\* the proof with the sign of h s flipped
SchnorrZPlus(k, h, s) == (k + h * s) % E521R

\* the proof z of signWithKey
SchnorrZ(k, h, s) == (k - h * s) % E521R

\* signWithKey: the Signature{M, H, Z} it builds
signWithKey(pw, message) ==
    LET s == SchnorrS(pw)
        k == SchnorrK(pw, message)
        U == E521SecMul(E521GenPoint, k)
        h == SetBytes(KMACXOF256(Bytes(U.x), message, "T"))
    IN  [M |-> message, H |-> h, Z |-> SchnorrZ(k, h, s)]

\* the point U2 = z G + h V recomputed by verify
SchnorrU2(pubkey, sg) ==
    E521Add(E521SecMul(E521GenPoint, sg.Z), E521SecMul(pubkey, sg.H))

\* verify
verify(pubkey, sg, message) ==
    SetBytes(KMACXOF256(Bytes(SchnorrU2(pubkey, sg).x), message, "T")) = sg.H

(***************************************************************************)
(* The state machine: one call, or one run_ecdsa session, per behaviour.   *)
(***************************************************************************)
VARIABLES ed, sq, dec, sch, call, reg, lad

\* the variables of the calls on E222 points
ptVars == << call, reg, lad >>

vars == << pc, d_a, Q_a, msg, sig, ver, ed, sq, dec, sch, call, reg, lad >>

NoSig == [status |-> "none", r |-> 0, s |-> 0, k |-> 0, copy |-> "none"]
NoVer == [Q |-> Infinity, r |-> 0, s |-> 0, msg |-> 0, res |-> "none"]
NoEd  == [P |-> E222IdPoint, S |-> 0, out |-> E222IdPoint]
NoSq  == [v |-> 0, lsb |-> 0, root |-> 0]
NoDec == [x |-> 0, msb |-> 0, out |-> E222IdPoint]
NoSch == [pw |-> << >>, M |-> << >>, V |-> E222IdPoint,
          sg |-> [M |-> << >>, H |-> 0, Z |-> 0], vM |-> << >>, res |-> FALSE]
\* two point variables of a caller
NoReg == [A |-> E222IdPoint, B |-> E222IdPoint]
\* a run of SecMul: the receiver P0 and the scalar S0 on entry, P and S as
\* they are now, the loop variables, the iterations done and the kinds of the
\* additions made, in order
NoLad == [P0 |-> E222IdPoint, S0 |-> 0, P |-> E222IdPoint, S |-> 0,
          r0 |-> E222IdPoint, r1 |-> E222IdPoint, i |-> 0, iters |-> 0,
          ops |-> << >>, out |-> E222IdPoint]
\* a call on points: the receiver A, the argument B and the scalar S as they
\* are on entry, A2, B2, S2 as they are on return, and what is returned
NoCall == [op |-> "none", shared |-> FALSE,
           A |-> E222IdPoint, B |-> E222IdPoint, S |-> 0,
           A2 |-> E222IdPoint, B2 |-> E222IdPoint, S2 |-> 0,
           out |-> E222IdPoint, eq |-> FALSE]

\* the points of the curve x^2 + y^2 = 1 + d x^2 y^2 with reduced coordinates
E222Points ==
    {A \in [x : 0..(getP - 1), y : 0..(getP - 1)] : OnE222(A)}

\* the points callers hand to SecMul: reduced, or with x negated and not
\* reduced as getOpposite leaves it
EdInputs == E222Points \cup {NewE222XY(0 - A.x, A.y) : A \in E222Points}

\* the keys presented to verify_ecdsa_sig: d G for every d, and the pairs of
\* 0..MaxBad that are not on the curve, the neutral (0, 0) among them
\* the points NewE222X returns when it does not panic
DecompressedPoints ==
    {NewE222X(x, msb) : x \in 0..MaxCoord, msb \in 0..1} \ {Fault}

\* the points a caller starts from: the identity, the generator and the
\* decompressed points
StartPoints == {E222IdPoint, E222GenPoint} \cup DecompressedPoints

\* the names of the caller's point variables
RegNames == {"A", "B"}

ValidKeys == {ScalarBaseMult(Bytes(d)) : d \in 1..(P256N - 1)}
InvalidKeys == {Q \in [x : 0..MaxBad, y : 0..MaxBad] : ~IsOnCurve(Q)}

Init ==
    /\ pc = "idle"
    /\ d_a = 0
    /\ Q_a = Infinity
    /\ msg = 0
    /\ sig = NoSig
    /\ ver = NoVer
    /\ ed = NoEd
    /\ sq = NoSq
    /\ dec = NoDec
    /\ sch = NoSch
    /\ call = NoCall
    /\ reg = NoReg
    /\ lad = NoLad

\* run_ecdsa: the random private key and the public key d_a G
KeyGen ==
    /\ pc = "idle"
    /\ \E d \in 0..MaxPriv :
          /\ d_a' = d
          /\ Q_a' = ScalarBaseMult(Bytes(d))
    /\ pc' = "keyed"
    /\ UNCHANGED << msg, sig, ver, ed, sq, dec, sch, ptVars >>

\* run_ecdsa: sign_message_ecdsa(&message, d_a), first copy
SignFirst ==
    /\ pc = "keyed"
    /\ \E m \in 0..MaxMsg, rnd \in 0..MaxRnd :
          /\ msg' = m
          /\ sig' = sign_message_ecdsa_first(m, d_a, rnd)
    /\ pc' = "signed"
    /\ UNCHANGED << d_a, Q_a, ver, ed, sq, dec, sch, ptVars >>

\* run_ecdsa: sign_message_ecdsa(&message, d_a), second copy
Sign ==
    /\ pc = "keyed"
    /\ \E m \in 0..MaxMsg, rnd \in 0..MaxRnd :
          /\ msg' = m
          /\ sig' = sign_message_ecdsa(m, d_a, rnd)
    /\ pc' = "signed"
    /\ UNCHANGED << d_a, Q_a, ver, ed, sq, dec, sch, ptVars >>

\* run_ecdsa: verify_ecdsa_sig(&Q_a, r, s, &message) on what was signed
VerifySigned ==
    /\ pc = "signed"
    /\ sig.status = "ok"
    /\ \E res \in verify_outcomes(Q_a, sig.r, sig.s, msg) :
          ver' = [Q |-> Q_a, r |-> sig.r, s |-> sig.s, msg |-> msg, res |-> res]
    /\ pc' = "verified"
    /\ UNCHANGED << d_a, Q_a, msg, sig, ed, sq, dec, sch, ptVars >>

\* verify_ecdsa_sig called on any key, pair and message
VerifyCall ==
    /\ pc = "idle"
    /\ \E Q \in ValidKeys \cup InvalidKeys, r \in 0..MaxSig, s \in 0..MaxSig,
          m \in 0..MaxMsg :
          \E res \in verify_outcomes(Q, r, s, m) :
             ver' = [Q |-> Q, r |-> r, s |-> s, msg |-> m, res |-> res]
    /\ pc' = "checked"
    /\ UNCHANGED << d_a, Q_a, msg, sig, ed, sq, dec, sch, ptVars >>

\* a call P.SecMul(S)
CallSecMul ==
    /\ pc = "idle"
    /\ \E A \in EdInputs, S \in 0..MaxScalar :
          ed' = [P |-> A, S |-> S, out |-> SecMul(A, S)]
    /\ pc' = "secmul"
    /\ UNCHANGED << d_a, Q_a, msg, sig, ver, sq, dec, sch, ptVars >>

\* a call sqrt(v, lsb)
CallSqrt ==
    /\ pc = "idle"
    /\ \E v \in 0..MaxRadicand, lsb \in 0..1 :
          sq' = [v |-> v, lsb |-> lsb, root |-> sqrt(v, lsb)]
    /\ pc' = "sqrt"
    /\ UNCHANGED << d_a, Q_a, msg, sig, ver, ed, dec, sch, ptVars >>

\* a call NewE222X(x, msb)
CallNewE222X ==
    /\ pc = "idle"
    /\ \E x \in 0..MaxCoord, msb \in 0..1 :
          dec' = [x |-> x, msb |-> msb, out |-> NewE222X(x, msb)]
    /\ pc' = "decompressed"
    /\ UNCHANGED << d_a, Q_a, msg, sig, ver, ed, sq, sch, ptVars >>

\* a call signWithKey(pw, &message), with the public key V = s G
CallSignWithKey ==
    /\ pc = "idle"
    /\ \E w \in 0..MaxPw, m \in 0..MaxMsg :
          sch' = [pw |-> Bytes(w), M |-> Bytes(m),
                  V |-> E521SecMul(E521GenPoint, SchnorrS(Bytes(w))),
                  sg |-> signWithKey(Bytes(w), Bytes(m)),
                  vM |-> << >>, res |-> FALSE]
    /\ pc' = "schnorr_signed"
    /\ UNCHANGED << d_a, Q_a, msg, sig, ver, ed, sq, dec, ptVars >>

\* a call verify(&V, &sig, &message) on a signature of signWithKey
CallVerify ==
    /\ pc = "schnorr_signed"
    /\ \E m \in 0..MaxMsg :
          sch' = [sch EXCEPT !.vM = Bytes(m),
                             !.res = verify(sch.V, sch.sg, Bytes(m))]
    /\ pc' = "schnorr_verified"
    /\ UNCHANGED << d_a, Q_a, msg, sig, ver, ed, sq, dec, ptVars >>

\* a call A.Add(B): Add reads its operands into locals and builds a new point
CallAdd ==
    /\ pc = "idle"
    /\ \E A \in EdInputs, B \in EdInputs :
          call' = [NoCall EXCEPT !.op = "Add", !.A = A, !.B = B,
                                 !.A2 = A, !.B2 = B, !.out = Add(A, B)]
    /\ pc' = "called"
    /\ UNCHANGED << d_a, Q_a, msg, sig, ver, ed, sq, dec, sch, reg, lad >>

\* a call A.getOpposite()
CallGetOpposite ==
    /\ pc = "idle"
    /\ \E A \in EdInputs :
          call' = [NoCall EXCEPT !.op = "getOpposite", !.A = A,
                                 !.A2 = getOppositeReceiver(A),
                                 !.out = getOpposite(A)]
    /\ pc' = "called"
    /\ UNCHANGED << d_a, Q_a, msg, sig, ver, ed, sq, dec, sch, reg, lad >>

\* a call A.Equals(B)
CallEquals ==
    /\ pc = "idle"
    /\ \E A \in EdInputs, B \in EdInputs :
          call' = [NoCall EXCEPT !.op = "Equals", !.A = A, !.B = B,
                                 !.A2 = A, !.B2 = B, !.eq = Equals(A, B)]
    /\ pc' = "called"
    /\ UNCHANGED << d_a, Q_a, msg, sig, ver, ed, sq, dec, sch, reg, lad >>

\* the expression P.Add(Q.getOpposite()).Equals(E222IdPoint()), with Q the
\* object P itself or, as in GPlusMinusG, a second point of the same value
CallAddOpposite ==
    /\ pc = "idle"
    /\ \E P \in EdInputs, shared \in BOOLEAN :
          call' = [NoCall EXCEPT
                      !.op = "AddOpposite", !.shared = shared,
                      !.A = P, !.B = P,
                      !.A2 = IF shared THEN getOppositeReceiver(P) ELSE P,
                      !.B2 = getOppositeReceiver(P),
                      !.out = AddOpposite(P, shared),
                      !.eq = Equals(AddOpposite(P, shared), E222IdPoint)]
    /\ pc' = "called"
    /\ UNCHANGED << d_a, Q_a, msg, sig, ver, ed, sq, dec, sch, reg, lad >>

\* r1.SecMul(S) is entered: r0 is the identity, i starts at S.BitLen()
LadderStart ==
    /\ pc = "idle"
    /\ \E P \in EdInputs, S \in 0..MaxScalar :
          lad' = [NoLad EXCEPT !.P0 = P, !.S0 = S, !.P = P, !.S = S,
                               !.r1 = P, !.i = BitLen(S)]
    /\ pc' = "ladder"
    /\ UNCHANGED << d_a, Q_a, msg, sig, ver, ed, sq, dec, sch, call, reg >>

\* one iteration of the loop of SecMul; r0 and r1 are rebound to new points,
\* the receiver and the scalar are only read
LadderIter ==
    /\ pc = "ladder"
    /\ lad.i >= 0
    /\ LET calls == LadderCalls(Bit(lad.S, lad.i))
           env   == RunCalls([r0 |-> lad.r0, r1 |-> lad.r1], calls)
       IN  /\ lad' = [lad EXCEPT
                         !.r0 = env.r0, !.r1 = env.r1,
                         !.i = lad.i - 1, !.iters = lad.iters + 1,
                         !.ops = lad.ops \o [k \in 1..Len(calls) |-> OpKind(calls[k])]]
           /\ pc' = IF env.r0 = Fault \/ env.r1 = Fault
                    THEN "ladder_panic" ELSE "ladder"
    /\ UNCHANGED << d_a, Q_a, msg, sig, ver, ed, sq, dec, sch, call, reg >>

\* the loop of SecMul is over: return r0
LadderReturn ==
    /\ pc = "ladder"
    /\ lad.i < 0
    /\ lad' = [lad EXCEPT !.out = lad.r0]
    /\ pc' = "ladder_done"
    /\ UNCHANGED << d_a, Q_a, msg, sig, ver, ed, sq, dec, sch, call, reg >>

\* a caller takes two points to work on
PointsStart ==
    /\ pc = "idle"
    /\ \E A \in StartPoints, B \in StartPoints :
          reg' = [A |-> A, B |-> B]
    /\ pc' = "points"
    /\ UNCHANGED << d_a, Q_a, msg, sig, ver, ed, sq, dec, sch, call, lad >>

\* A = a.Add(b) on the caller's points; a nil denominator panics
PointsAdd ==
    /\ pc = "points"
    /\ \E a \in RegNames, b \in RegNames :
          LET out == Add(reg[a], reg[b])
          IN  IF out = Fault
              THEN reg' = reg /\ pc' = "points_panic"
              ELSE reg' = [reg EXCEPT !.A = out] /\ pc' = "points"
    /\ UNCHANGED << d_a, Q_a, msg, sig, ver, ed, sq, dec, sch, call, lad >>

\* A = a.getOpposite() on the caller's points: a itself is negated too
PointsGetOpposite ==
    /\ pc = "points"
    /\ \E a \in RegNames :
          reg' = [[reg EXCEPT ![a] = getOppositeReceiver(reg[a])]
                       EXCEPT !.A = getOpposite(reg[a])]
    /\ pc' = "points"
    /\ UNCHANGED << d_a, Q_a, msg, sig, ver, ed, sq, dec, sch, call, lad >>

\* A = a.SecMul(S) on the caller's points; a nil denominator panics
PointsSecMul ==
    /\ pc = "points"
    /\ \E a \in RegNames, S \in 0..MaxMult :
          LET out == SecMul(reg[a], S)
          IN  IF out = Fault
              THEN reg' = reg /\ pc' = "points_panic"
              ELSE reg' = [reg EXCEPT !.A = out] /\ pc' = "points"
    /\ UNCHANGED << d_a, Q_a, msg, sig, ver, ed, sq, dec, sch, call, lad >>

Next ==
    \/ KeyGen
    \/ SignFirst
    \/ Sign
    \/ VerifySigned
    \/ VerifyCall
    \/ CallSecMul
    \/ CallSqrt
    \/ CallNewE222X
    \/ CallSignWithKey
    \/ CallVerify
    \/ CallAdd
    \/ CallGetOpposite
    \/ CallEquals
    \/ CallAddOpposite
    \/ LadderStart
    \/ LadderIter
    \/ LadderReturn
    \/ PointsStart
    \/ PointsAdd
    \/ PointsGetOpposite
    \/ PointsSecMul

Spec == Init /\ [][Next]_vars

(***************************************************************************)
(* The claims.                                                             *)
(***************************************************************************)
\* the verification equation as the comments of verify_ecdsa_sig state it:
\* r is congruent to x1 modulo n
EquationHolds(Q, r, s, m) == res_x(Q, r, s, m) % P256N = r

\* C1: ECDSA round trip: for every private scalar d_a in [1, n-1] with
\* Q_a = d_a G, every message and every nonce draw, verify_ecdsa_sig(Q_a, r,
\* s, m) returns true for the pair (r, s) that sign_message_ecdsa returns.
C1_RoundTrip ==
    (pc = "verified" /\ d_a \in 1..(P256N - 1)) => ver.res = "true"

\* C2: Schnorr round trip: with s, k, h, z as signWithKey computes them and
\* V = s G, the point z G + h V has the x-coordinate of U = k G and
\* verify(V, {h, z}, message) returns true.
C2_SchnorrRoundTrip ==
    (pc = "schnorr_verified" /\ sch.vM = sch.M) =>
        /\ SchnorrU2(sch.V, sch.sg).x
              = E521SecMul(E521GenPoint, SchnorrK(sch.pw, sch.M)).x
        /\ sch.res = TRUE

\* C2 witness: a verified signature whose tag and proof are not zero and
\* whose product h s passes the order r, so that the reduction matters
C2_Witness ==
    /\ pc = "schnorr_verified"
    /\ sch.vM = sch.M
    /\ sch.res = TRUE
    /\ sch.sg.H # 0
    /\ sch.sg.Z # 0
    /\ sch.sg.H * SchnorrS(sch.pw) > E521R
    /\ sch.V # E222IdPoint

RECURSIVE NFold(_, _)
\* the s-fold sum P + ... + P under Add, starting from the identity
NFold(A, s) == IF s = 0 THEN E222IdPoint ELSE Add(NFold(A, s - 1), A)

\* C3: SecMul(P, s) is the s-fold sum of P under Add: the identity for
\* s = 0, SecMul(P, s + 1) = Add(SecMul(P, s), P), and for s at or above the
\* group order n the same point as SecMul(P, s mod n).
C3_SecMulIsRepeatedAdd ==
    pc = "secmul" =>
        /\ ed.out = NFold(ed.P, ed.S)
        /\ (ed.S = 0 => ed.out = NewE222XY(0, 1))
        /\ SecMul(ed.P, ed.S + 1) = Add(ed.out, ed.P)
        /\ (ed.S >= getN => ed.out = SecMul(ed.P, ed.S % getN))

\* C3 witness: a multiplication by a scalar above the group order, of a
\* point of full order whose x is not reduced, with a result that is not
\* the identity
C3_Witness ==
    /\ pc = "secmul"
    /\ ed.S > getN
    /\ ed.P.x < 0
    /\ SecMul(ed.P, 4) # E222IdPoint
    /\ SecMul(ed.P, 2 * getR) # E222IdPoint
    /\ ed.out # E222IdPoint

\* C4: sign_message_ecdsa never returns a pair with r = 0 or s = 0: both
\* components of every returned pair are in [1, n-1].
C4_NoZeroComponent ==
    (pc = "signed" /\ d_a \in 1..(P256N - 1) /\ sig.status = "ok") =>
        /\ sig.r \in 1..(P256N - 1)
        /\ sig.s \in 1..(P256N - 1)

\* a public key that is neutral, not on the curve, or not of order n
InvalidKey(Q) ==
    \/ Q = Infinity
    \/ ~IsOnCurve(Q)
    \/ P256Mult(Q, P256N) # Infinity

\* C5: verify_ecdsa_sig returns false, without a fault, for every public
\* key that is the neutral point, is not on the curve or does not satisfy
\* n Q_a = neutral, whatever r, s and the message are.
C5_InvalidKeyRejected ==
    (pc = "checked" /\ InvalidKey(ver.Q)) => ver.res = "false"

\* C6: for a valid public key and r, s in [1, n-1], verify_ecdsa_sig returns
\* true if and only if the x-coordinate x1 of u1 G + u2 Q_a satisfies
\* x1 mod n = r, also when x1 lies in [n, p-1].  Stated for the pairs the
\* range check of the code lets through, so that the equation alone decides.
C6_AcceptIffXModN ==
    (/\ pc = "checked"
     /\ ~InvalidKey(ver.Q)
     /\ ver.r \in 1..(P256N - 1)
     /\ ver.s \in 1..(P256N - 1)
     /\ InRange(ver.r, ver.s)) =>
        (ver.res = "true" <=> EquationHolds(ver.Q, ver.r, ver.s, ver.msg))

\* C7: the range check of verify_ecdsa_sig rejects exactly the pairs with r
\* or s outside [1, n-1]: a pair inside, 1 and n-1 included, is decided by
\* the verification equation, and a pair with r or s equal to 0 or >= n is
\* rejected.
C7_RangeCheck ==
    (pc = "checked" /\ ~InvalidKey(ver.Q)) =>
        IF ver.r \in 1..(P256N - 1) /\ ver.s \in 1..(P256N - 1)
        THEN ver.res = "true"
                <=> Accepts(res_x(ver.Q, ver.r, ver.s, ver.msg), ver.r)
        ELSE ver.res = "false"

\* C8, as stated: if (r, s) is accepted for m under Q_a, every other pair
\* (r', s') is rejected for the same m and Q_a.
C8_EveryOtherPairRejected ==
    (pc = "checked" /\ ver.res = "true") =>
        \A r2 \in 0..MaxSig, s2 \in 0..MaxSig :
            << r2, s2 >> # << ver.r, ver.s >>
                => ~verify_ecdsa_sig(ver.Q, r2, s2, ver.msg)

\* C8, amended: if (r, s) is accepted for m under Q_a, then for the same m,
\* Q_a and r every s' other than s and n - s is rejected.
C8_OnlyTwinAccepted ==
    (pc \in {"checked", "verified"} /\ ver.res = "true") =>
        \A s2 \in 0..MaxSig :
            s2 \notin {ver.s, P256N - ver.s}
                => ~verify_ecdsa_sig(ver.Q, ver.r, s2, ver.msg)

\* C8 witness: an accepted pair whose twin (r, n - s) is accepted as well
C8_Witness ==
    /\ pc = "checked"
    /\ ver.res = "true"
    /\ ver.s # P256N - ver.s
    /\ verify_ecdsa_sig(ver.Q, ver.r, P256N - ver.s, ver.msg)

\* v is a square modulo p
IsResidue(v) == \E y \in 0..(getP - 1) : (y * y - v) % getP = 0

\* C9: sqrt returns no root (nil) for every radicand that is a quadratic
\* non-residue modulo p, for either parity bit, and never returns r with
\* r r not congruent to v modulo p.
C9_SqrtChecked ==
    pc = "sqrt" =>
        /\ (~IsResidue(sq.v) => sq.root = Nil)
        /\ (sq.root # Nil => (sq.root * sq.root - sq.v) % getP = 0)

\* C10: decompression round trip: for every point (x, y) of the curve with
\* 0 <= x, y < p, NewE222X(x, y mod 2) is the point (x, y).
C10_DecompressRoundTrip ==
    pc = "decompressed" =>
        \A A \in E222Points :
            (A.x = dec.x /\ A.y % 2 = dec.msb) => dec.out = A

\* C11: for every point P on the curve, P.Add(P.getOpposite()) equals the
\* identity (0, 1) under Equals, getOpposite being applied to the very point
\* that is the left operand of Add.
C11_AddOppositeIsIdentity ==
    (pc = "called" /\ call.op = "AddOpposite" /\ call.shared
        /\ call.A \in E222Points)
    => call.eq

\* C12: point operations never mutate their operands: after a call of Add,
\* SecMul, getOpposite or Equals the receiver, every argument point and the
\* scalar handed to SecMul are as they were on entry.
C12_OperandsUnchanged ==
    /\ (pc = "called" /\ call.op \in {"Add", "getOpposite", "Equals"})
          => (call.A2 = call.A /\ call.B2 = call.B /\ call.S2 = call.S)
    /\ (pc \in {"ladder", "ladder_done", "ladder_panic"})
          => (lad.P = lad.P0 /\ lad.S = lad.S0)

\* congruence of two points modulo p, coordinate by coordinate
Congruent(A, B) ==
    (A.x - B.x) % getP = 0 /\ (A.y - B.y) % getP = 0

\* C13: Equals(A, B) is true exactly when A.x = B.x and A.y = B.y modulo p,
\* for every pair of points the API produces, the points with coordinates
\* outside [0, p) that getOpposite and NewE222XY return included.
C13_EqualsModP ==
    (pc = "called" /\ call.op = "Equals")
    => (call.eq <=> Congruent(call.A, call.B))

\* C14: starting from the identity, the generator and any point a successful
\* NewE222X returns, every point produced by a sequence of Add, getOpposite
\* and SecMul satisfies x^2 + y^2 = 1 + d x^2 y^2 modulo p, and no Add of the
\* sequence meets a denominator without an inverse.
C14_StaysOnCurve ==
    /\ pc # "points_panic"
    /\ pc = "points" => (OnE222(reg.A) /\ OnE222(reg.B))

\* the kind the k-th addition of a run of the ladder has when every iteration
\* makes a general addition and then a doubling
ExpectedKind(k) == IF k % 2 = 1 THEN "add" ELSE "double"

\* C15: the ladder of SecMul runs bitLength(s) + 1 iterations, bit index
\* bitLength(s) down to 0, with no early exit, and every iteration makes one
\* general addition of r0 and r1 and then one doubling, whatever the bit: the
\* kinds of the operations made depend on the bit length of s alone.  The
\* run returns what SecMul returns.
C15_LadderShape ==
    /\ pc # "ladder_panic"
    /\ pc \in {"ladder", "ladder_done"} =>
          /\ lad.iters = BitLen(lad.S0) - lad.i
          /\ Len(lad.ops) = 2 * lad.iters
          /\ \A k \in 1..Len(lad.ops) : lad.ops[k] = ExpectedKind(k)
    /\ pc = "ladder_done" =>
          /\ lad.i = -1
          /\ lad.iters = BitLen(lad.S0) + 1
          /\ lad.out = SecMul(lad.P0, lad.S0)

\* a run of the ladder has returned for the generator and the scalar 21,
\* whose five bits are 1, 0, 1, 0, 1, after six iterations
C15_Witness ==
    /\ pc = "ladder_done"
    /\ lad.P0 = E222GenPoint
    /\ lad.S0 = 21
    /\ lad.iters = 6
    /\ Len(lad.ops) = 12

\* C16: in sign_message_ecdsa, both copies, for every value of the random
\* draw the nonce k after the adjustment lies in [1, n - 1]: k is never 0,
\* never negative, never n, and the inverse of k modulo n exists, so the
\* function returns.
C16_NonceInRange ==
    pc = "signed" =>
        /\ sig.k \in 1..(P256N - 1)
        /\ ModInverse(sig.k, P256N) # Nil
        /\ sig.status = "ok"

=============================================================================
